---- MODULE Spec2Model ----
(***************************************************************************)
(* Model of the slingxdcc download orchestrator (node/lib/SlingManager.js): *)
(* the registry of networks, the per-bot transfer queues, the finished set, *)
(* the persisted configuration (sc.nw, sc.dl), the document store and the   *)
(* transfer-engine handles whose events drive the queue.                    *)
(*                                                                         *)
(* One action is one run-to-completion callback of the event loop: an API   *)
(* call, the continuation of an asynchronous call, or an event handler.     *)
(***************************************************************************)
EXTENDS Integers, Sequences, FiniteSets, TLC

VARIABLES
    networks,       \* Map name -> {irc, logger, xdcc}           (SlingManager.js:29)
    req,            \* the pack objects handed out by db.getItem, by identity
    finished,       \* Set of finished requests, insertion-ordered (SlingManager.js:31)
    dl,             \* sc.dl: persisted pending-lists, keyed network:bot
    nwconf,         \* sc.nw: persisted network configuration
    db,             \* document store: the stored pack-offers
    lookups,        \* db.getItem calls of addDownload that have not answered yet
    removals,       \* removeNetwork calls whose async.parallel has not joined yet
    crashed,        \* an event handler threw: the process is gone
    checkFilename,  \* setting xdcc:checkFilename
    replay,         \* TRUE from boot until the first operation that is not boot's
    calls,          \* calls and restarts so far
    ret             \* what the last call or handler was and what it reported

vars == <<networks, req, finished, dl, nwconf, db, lookups, removals,
          crashed, checkFilename, replay, calls, ret>>

----------------------------------------------------------------------------
(* Bounds of the model *)

\* calls the application makes (addNetwork, removeNetwork, addDownload,
\* cancelDownload) and restarts of the process, together
MaxCalls == 5
\* notices a transfer handle collects
MaxNotices == 1
\* digits of the size in an announcement
MaxDigits == 2

(* The universe the inputs are drawn from *)
NetNames == {"n1", "n2"}
HostNames == {"h1", "h2"}
Bots == {"b1", "b2"}
NetOrder == <<"n1", "n2">>
BotOrder == <<"b1", "b2">>

\* the pack-offers announced so far: <<network, bot, pack number>>
StoredPacks == {<<"n1", "b1", 1>>, <<"n1", "b1", 2>>, <<"n1", "b2", 1>>, <<"n2", "b1", 1>>}
\* ids the application asks for: the stored ones and one that was never announced
DownloadIds == StoredPacks \cup {<<"n1", "b1", 3>>}
PackNums == {1, 2, 3}
\* the application calls addDownload(id) with dontPersist left at its default
UserDontPersist == {FALSE}

FileName(k) == IF k = 1 THEN "a" ELSE "b"

\* nicks nomi.generate() can return
GenNicks == {"g1", "g2"}
\* the options addNetwork is called with where they do not matter
DefaultOpts == [nick |-> <<"string", "me">>, commands |-> <<>>, channels |-> <<>>]

----------------------------------------------------------------------------
(* JavaScript objects and Maps as functions with a growing domain *)

EmptyMap == [x \in {} |-> 0]
With(f, k, v) == [x \in DOMAIN f \cup {k} |-> IF x = k THEN v ELSE f[x]]
Without(f, k) == [x \in DOMAIN f \ {k} |-> f[x]]
Range(s) == {s[i] : i \in DOMAIN s}

\* Set.prototype.add on an insertion-ordered Set
SetAdd(s, x) == IF x \in Range(s) THEN s ELSE Append(s, x)

\* Array.prototype.shift: on an empty array it removes nothing
Shift(s) == IF Len(s) = 0 THEN s ELSE Tail(s)

\* a removal that drops the head whatever is asked for
RemoveHead(s, drop) == Tail(s)
RECURSIVE RemoveAll(_, _)
\* _.remove(array, predicate): drops every matching element, keeps the order
RemoveAll(s, drop) ==
    IF Len(s) = 0 THEN <<>>
    ELSE IF Head(s) \in drop THEN RemoveAll(Tail(s), drop)
         ELSE <<Head(s)>> \o RemoveAll(Tail(s), drop)

\* ret: the call or handler that ran last and the error it reported; the
\* parser and the snapshot functions add what they were given and returned
R(op, err, net, bot, id, uid) == [op |-> op, err |-> err]

----------------------------------------------------------------------------
(* Document store *)

\* db.getItem(id): the record stored under the composite id network:bot:pack
Found(id) == id \in db
GetItem(id) == [id |-> id[3], network |-> id[1], bot |-> id[2], name |-> FileName(id[3])]

(* Transfer engine: the signals a handle accepts *)
Running == {"requested", "connected", "canceling"}
Start(st) == IF st = "created" THEN "requested" ELSE st
Cancel(st) == IF st \in {"requested", "connected"} THEN "canceling" ELSE st
Kill(st) == IF st \in {"created"} \cup Running THEN "killed" ELSE st
\* cnXdcc.pack.status of a handle
PackStatus(st) == IF st \in {"created", "requested"} THEN "created" ELSE st

----------------------------------------------------------------------------
(* Reading the registry *)

HasQueue(n, b) == n \in DOMAIN networks /\ b \in DOMAIN networks[n].xdcc
Queue(n, b) == networks[n].xdcc[b]
QueueIds(q) == [i \in DOMAIN q |-> req[q[i]].id]

\* sc.dl.get(`${network}:${bot}`) || []
DlGet(n, b) == IF <<n, b>> \in DOMAIN dl THEN dl[<<n, b>>] ELSE <<>>
\* settingsArr.shift(); sc.dl.set(key, settingsArr); sc.dl.save()
DlShift(n, b) == With(dl, <<n, b>>, Shift(DlGet(n, b)))

\* the advancement rule on the array left after the head was popped:
\* the new head is started, an empty array is deleted from nw.xdcc
AdvanceReq(r, rest) ==
    IF Len(rest) >= 1 THEN [r EXCEPT ![Head(rest)].st = Start(@)] ELSE r
AdvanceNw(n, b, rest) ==
    IF Len(rest) >= 1
    THEN [networks EXCEPT ![n].xdcc = With(@, b, rest)]
    ELSE [networks EXCEPT ![n].xdcc = Without(@, b)]

\* The pack objects something still refers to: a queue, the finished set, or
\* a transfer handle that can still emit events.  The others are garbage.
Live(r, nw, fin) ==
    {u \in DOMAIN r :
        \/ r[u].st \in Running
        \/ u \in Range(fin)
        \/ \E n \in DOMAIN nw : \E b \in DOMAIN nw[n].xdcc : u \in Range(nw[n].xdcc[b])}
Collect(r, nw, fin) == [u \in Live(r, nw, fin) |-> r[u]]

\* the identity of the next pack object
NewUid ==
    CHOOSE u \in 1..(Cardinality(DOMAIN req) + 1) :
        u \notin DOMAIN req /\ \A v \in 1..(u - 1) : v \in DOMAIN req

----------------------------------------------------------------------------
(* Connection Session (SlingIrc) *)

\* A JavaScript value that may be a string: <<typeof value, its text>>
\* _.isString(value)
IsString(v) == v[1] = "string"

\* chans.set(channel.name, channel) on an insertion-ordered Map, kept as the
\* sequence of its values: an existing key keeps its place
MapSet(chans, channel) ==
    IF \E i \in DOMAIN chans : chans[i].name = channel.name
    THEN [i \in DOMAIN chans |-> IF chans[i].name = channel.name THEN channel ELSE chans[i]]
    ELSE Append(chans, channel)
\* chans.delete(name)
MapDelete(chans, name) == SelectSeq(chans, LAMBDA c : c.name # name)

RECURSIVE MapFrom(_)
\* for (let channel of channels) chans.set(channel.name, channel)
MapFrom(channels) ==
    IF Len(channels) = 0 THEN <<>>
    ELSE MapSet(MapFrom(SubSeq(channels, 1, Len(channels) - 1)), channels[Len(channels)])

\* new SlingIrc(hostname, opts); gen is what nomi.generate() returns.
\* pend: the joins and parts the client has sent and the server has not
\* acknowledged yet, oldest first
\* sent: how many commands the eachSeries of handle.registered has sent
\* wire: what handle.registered and its timers handed to the client, in order
\* obs:  the number of listeners of the channel's message event, by channel
Session(hostname, opts, gen) ==
    [hostname |-> hostname,
     nick |-> IF IsString(opts.nick) THEN opts.nick[2] ELSE gen,
     commands |-> opts.commands,
     chans |-> MapFrom(opts.channels),
     status |-> "connecting",
     pend |-> <<>>,
     sent |-> 0,
     wire |-> <<>>,
     obs |-> EmptyMap]

\* SlingIrc.toJSON
ToJSON(irc) ==
    [hostname |-> irc.hostname,
     opts |-> [nick |-> <<"string", irc.nick>>,
               commands |-> irc.commands,
               channels |-> irc.chans],
     status |-> irc.status]

\* new SlingChannel: a channel of the given name and settings (password,
\* pattern, field order), not joined yet
Channel(name, cfg) == [name |-> name, cfg |-> cfg, status |-> "not-joined"]
\* SlingChannel.fromJSON(jChan)
ChannelFromJSON(jChan) == Channel(jChan.name, jChan.cfg)

RECURSIVE Unshifted(_)
\* for (let jChan of channels) opts.channels.unshift(SlingChannel.fromJSON(jChan))
Unshifted(channels) ==
    IF Len(channels) = 0 THEN <<>>
    ELSE Unshifted(Tail(channels)) \o <<ChannelFromJSON(Head(channels))>>

\* SlingIrc.fromJSON(json): the nick is read from json.nick
FromJSON(json, gen) ==
    Session(json.hostname,
            [nick |-> IF "nick" \in DOMAIN json THEN json.nick ELSE <<"undefined", "">>,
             commands |-> json.opts.commands,
             channels |-> Unshifted(json.opts.channels)],
            gen)

\* no channel: the value of "then" of a command nothing waits for
NoChannel == Channel("", 0)
HasChannel(irc, name) == \E i \in DOMAIN irc.chans : irc.chans[i].name = name

\* SlingIrc.join(channel, cb)
Join(irc, channel) ==
    [irc EXCEPT !.chans = MapSet(@, channel),
                !.pend = Append(@, [cmd |-> "join", name |-> channel.name, then |-> NoChannel])]
\* SlingIrc.part(channel, cb); then: the channel the callback joins, if any
Part(irc, channel, then) ==
    [irc EXCEPT !.pend = Append(@, [cmd |-> "part", name |-> channel.name, then |-> then])]

\* chan.observed: the settings numbered 1 have announcement parsing on
Observed(chan) == chan.cfg = 1
Observers(irc, name) == IF name \in DOMAIN irc.obs THEN irc.obs[name] ELSE 0
\* SlingIrc.observe(channel): client.on("message" + channel.name, ...)
Observe(irc, channel) ==
    [irc EXCEPT !.obs = With(@, channel.name, Observers(irc, channel.name) + 1)]
\* client.removeAllListeners("message" + chan.name)
RemoveAllListeners(irc, name) == [irc EXCEPT !.obs = Without(@, name)]

RECURSIVE JoinAll(_, _)
\* chans.forEach(v => this.join(v))
JoinAll(irc, channels) ==
    IF Len(channels) = 0 THEN irc
    ELSE JoinAll([Join(irc, Head(channels)) EXCEPT
                      !.wire = Append(@, <<"join", Head(channels).name>>)],
                 Tail(channels))

\* client.send(command) by the eachSeries of handle.registered
SendCommand(irc) ==
    [irc EXCEPT !.sent = @ + 1, !.wire = Append(@, <<"command", irc.commands[irc.sent + 1]>>)]

\* SlingIrc.addChannel(channel, cb)
IrcAddChannel(irc, channel) ==
    IF ~HasChannel(irc, channel.name)
    THEN Join([irc EXCEPT !.chans = MapSet(@, channel)], channel)
    ELSE Part(irc, channel, channel)
\* SlingIrc.removeChannel(channel, cb), for a channel the session tracks
IrcRemoveChannel(irc, channel) == Part(irc, channel, NoChannel)

(* Packet Announcement Parser (handle.packParse) *)

\* A JavaScript number n * 1024^e that has grown by multiplications with
\* 1024 only; n < 1024, and zero is written with e = 0
Num(n, e) == IF n = 0 THEN [m |-> 0, e |-> 0] ELSE [m |-> n, e |-> e]
\* packData.size *= 1024
Times1024(x) == Num(x.m, x.e + 1)

RECURSIVE ParseInt(_)
\* parseInt(text) of a text of decimal digits, given as their sequence
ParseInt(text) ==
    IF Len(text) = 0 THEN 0
    ELSE 10 * ParseInt(SubSeq(text, 1, Len(text) - 1)) + text[Len(text)]

\* String.prototype.toLowerCase on a unit letter
ToLowerCase(u) ==
    CASE u = "T" -> "t" [] u = "G" -> "g" [] u = "M" -> "m" [] u = "K" -> "k"
      [] u = "B" -> "b" [] OTHER -> u

\* a switch whose cases all end in a break
ScaleOnce(size, unit) ==
    IF ToLowerCase(unit) \in {"t", "g", "m", "k"}
    THEN [size |-> Times1024(size), sizeMatch |-> TRUE]
    ELSE [size |-> size, sizeMatch |-> FALSE]
\* switch (packData.sizeUnit.toLowerCase()): the cases fall through from
\* "t" down to "k"
Scale(size, unit) ==
    LET u == ToLowerCase(unit)
        t == IF u = "t" THEN Times1024(size) ELSE size
        g == IF u \in {"t", "g"} THEN Times1024(t) ELSE t
        m == IF u \in {"t", "g", "m"} THEN Times1024(g) ELSE g
        k == IF u \in {"t", "g", "m", "k"} THEN Times1024(m) ELSE m
    IN [size |-> k, sizeMatch |-> u \in {"t", "g", "m", "k"}]

\* the packData of an announcement whose groups give a size text and a unit
PackData(text, unit) ==
    LET r == Scale(Num(ParseInt(text), 0), unit)
    IN [size |-> r.size,
        sizeUnit |-> IF r.sizeMatch THEN <<"undefined", "">> ELSE <<"string", unit>>]

\* logger.addPack(id, nick, fileName, packData): the offer is stored
AddPack(n, nick, id) == db \cup {<<n, nick, id>>}

----------------------------------------------------------------------------
Init ==
    /\ networks = EmptyMap
    /\ req = EmptyMap
    /\ finished = <<>>
    /\ dl = EmptyMap
    /\ nwconf = EmptyMap
    /\ db = StoredPacks
    /\ lookups = <<>>
    /\ removals = EmptyMap
    /\ crashed = FALSE
    /\ checkFilename \in BOOLEAN
    /\ replay = TRUE
    /\ calls = 0
    /\ ret = R("boot", "", "", "", 0, 0)

----------------------------------------------------------------------------
(* addNetwork(network, hostname, opts) *)
\* a registry that never reports a name as taken
NameTakenNever(n) == FALSE
\* networks.has(network)
NameTaken(n) == n \in DOMAIN networks

AddNetworkOpts(n, h, opts, gen) ==
    /\ ~crashed
    /\ calls < MaxCalls
    /\ calls' = calls + 1
    /\ replay' = FALSE
    /\ UNCHANGED <<req, finished, dl, db, lookups, removals, crashed, checkFilename>>
    /\ IF NameTaken(n)
       THEN /\ ret' = R("addNetwork", "network name not unique", n, "", 0, 0)
            /\ UNCHANGED <<networks, nwconf>>
       ELSE /\ networks' = With(networks, n,
                  [hostname |-> h, client |-> "up", xdcc |-> EmptyMap,
                   irc |-> Session(h, opts, gen)])
            /\ nwconf' = With(nwconf, n, [hostname |-> h, opts |-> opts])
            /\ ret' = R("addNetwork", "", n, "", 0, 0)

\* addNetwork with a nick and no commands or channels in opts
AddNetwork(n, h) == AddNetworkOpts(n, h, DefaultOpts, "g1")

\* addNetwork called with any value as the name
AddNetworkValue(v, h) ==
    IF IsString(v)
    THEN AddNetwork(v[2], h)
    ELSE /\ ~crashed
         /\ calls < MaxCalls
         /\ calls' = calls + 1
         /\ replay' = FALSE
         /\ ret' = R("addNetwork", "network must a string", "", "", 0, 0)
         /\ UNCHANGED <<networks, req, finished, dl, nwconf, db, lookups, removals,
                        crashed, checkFilename>>

\* SlingIrc.fromJSON(irc.toJSON()) on the session of network n; the session
\* built is handed back and the registry keeps the old one
RoundTrip(n, gen) ==
    /\ ~crashed
    /\ calls < MaxCalls
    /\ calls' = calls + 1
    /\ n \in DOMAIN networks
    /\ replay' = FALSE
    /\ ret' = [op |-> "fromJSON", err |-> "", data |-> FromJSON(ToJSON(networks[n].irc), gen)]
    /\ UNCHANGED <<networks, req, finished, dl, nwconf, db, lookups, removals,
                   crashed, checkFilename>>

\* handle.packParse on a line of bot nick in a channel of network n that
\* matches the channel's pattern; onPackinfo stores the offer
PackParse(n, nick, id, text, unit) ==
    /\ ~crashed
    /\ UNCHANGED calls
    /\ n \in DOMAIN networks
    /\ replay' = FALSE
    /\ db' = AddPack(n, nick, id)
    /\ ret' = [op |-> "packParse", err |-> "", text |-> text, unit |-> unit,
               data |-> PackData(text, unit)]
    /\ UNCHANGED <<networks, req, finished, dl, nwconf, lookups, removals,
                   crashed, checkFilename>>

----------------------------------------------------------------------------
(* addChannel(network, channel, cb) and removeChannel(network, channel, cb) *)

\* the key "${network}:opts:channels" is written as it stands: the string is
\* no template literal, so the record named ${network} gets the list
LiteralKey == "${network}"
\* sc.nw.set("${network}:opts:channels", irc.chans); sc.nw.save()
PersistChannels(n, chans) == With(nwconf, LiteralKey, [opts |-> [channels |-> chans]])

AddChannel(n, channel) ==
    /\ ~crashed
    /\ calls < MaxCalls
    /\ calls' = calls + 1
    /\ replay' = FALSE
    /\ UNCHANGED <<req, finished, dl, db, lookups, removals, crashed, checkFilename>>
    /\ IF n \notin DOMAIN networks
       THEN /\ ret' = R("addChannel", "unknown network", n, "", 0, 0)
            /\ UNCHANGED <<networks, nwconf>>
       ELSE LET irc == IrcAddChannel(networks[n].irc, channel) IN
            /\ networks' = [networks EXCEPT ![n].irc = irc]
            /\ nwconf' = PersistChannels(n, irc.chans)
            /\ ret' = R("addChannel", "", n, "", 0, 0)

RemoveChannel(n, channel) ==
    /\ ~crashed
    /\ calls < MaxCalls
    /\ calls' = calls + 1
    /\ replay' = FALSE
    /\ UNCHANGED <<req, finished, dl, db, lookups, removals, crashed, checkFilename>>
    /\ IF n \notin DOMAIN networks
       THEN /\ ret' = R("removeChannel", "unknown network", n, "", 0, 0)
            /\ UNCHANGED <<networks, nwconf>>
       ELSE IF ~HasChannel(networks[n].irc, channel.name)
       THEN /\ ret' = R("removeChannel", "channel don't exists", n, "", 0, 0)
            /\ UNCHANGED <<networks, nwconf>>
       ELSE LET irc == IrcRemoveChannel(networks[n].irc, channel) IN
            /\ networks' = [networks EXCEPT ![n].irc = irc]
            /\ nwconf' = PersistChannels(n, irc.chans)
            /\ ret' = R("removeChannel", "", n, "", 0, 0)

\* handle.join for this session's own nick: the server acknowledged a join
JoinAck(n) ==
    /\ ~crashed
    /\ UNCHANGED calls
    /\ n \in DOMAIN networks
    /\ Len(networks[n].irc.pend) > 0
    /\ Head(networks[n].irc.pend).cmd = "join"
    /\ replay' = FALSE
    /\ UNCHANGED <<req, finished, dl, nwconf, db, lookups, removals, checkFilename>>
    /\ LET irc == networks[n].irc
           name == Head(irc.pend).name
           irc1 == [irc EXCEPT !.pend = Tail(@)]
       IN IF ~HasChannel(irc, name)
          THEN /\ crashed' = TRUE
               /\ networks' = [networks EXCEPT ![n].irc = irc1]
               /\ ret' = R("join", "TypeError", n, "", 0, 0)
          ELSE LET chan == CHOOSE c \in Range(irc.chans) : c.name = name
                   irc2 == [irc1 EXCEPT !.chans = [i \in DOMAIN @ |->
                         IF @[i].name = name THEN [@[i] EXCEPT !.status = "joined"] ELSE @[i]]]
               IN
               /\ networks' = [networks EXCEPT ![n].irc =
                     IF Observed(chan) THEN Observe(irc2, chan) ELSE irc2]
               /\ ret' = R("join", "", n, "", 0, 0)
               /\ UNCHANGED crashed

\* handle.part for this session's own nick, then the callback of client.part:
\* the server acknowledged a part
PartAck(n) ==
    /\ ~crashed
    /\ UNCHANGED calls
    /\ n \in DOMAIN networks
    /\ Len(networks[n].irc.pend) > 0
    /\ Head(networks[n].irc.pend).cmd = "part"
    /\ replay' = FALSE
    /\ UNCHANGED <<req, finished, dl, nwconf, db, lookups, removals, checkFilename>>
    /\ LET irc == networks[n].irc
           p == Head(irc.pend)
           irc1 == [irc EXCEPT !.pend = Tail(@)]
       IN IF ~HasChannel(irc, p.name)
          THEN /\ crashed' = TRUE
               /\ networks' = [networks EXCEPT ![n].irc = irc1]
               /\ ret' = R("part", "TypeError", n, "", 0, 0)
          ELSE LET irc2 == [RemoveAllListeners(irc1, p.name) EXCEPT
                                !.chans = MapDelete(@, p.name)] IN
               /\ networks' = [networks EXCEPT ![n].irc =
                     IF p.then = NoChannel THEN irc2 ELSE Join(irc2, p.then)]
               /\ ret' = R("part", "", n, "", 0, 0)
               /\ UNCHANGED crashed

\* handle.registered: the client registered with the server, for the first
\* time or after a reconnect (retryDelay is a minute, the commands of the
\* earlier registration are out by then and the old connection is quiet)
Registered(n) ==
    /\ ~crashed
    /\ calls < MaxCalls
    /\ calls' = calls + 1
    /\ n \in DOMAIN networks
    /\ networks[n].irc.sent = Len(networks[n].irc.commands)
           \/ networks[n].irc.status = "connecting"
    /\ networks[n].irc.pend = <<>>
    /\ replay' = FALSE
    /\ UNCHANGED <<req, finished, dl, nwconf, db, lookups, removals, crashed, checkFilename>>
    /\ LET irc == networks[n].irc
           irc1 == [irc EXCEPT !.status = "connected", !.sent = 0, !.wire = <<>>]
           irc2 == IF Len(irc.commands) > 0 THEN SendCommand(irc1) ELSE irc1
       IN networks' = [networks EXCEPT ![n].irc = JoinAll(irc2, irc2.chans)]
    /\ ret' = R("registered", "", n, "", 0, 0)

\* setTimeout(cb, 200) of the eachSeries of handle.registered: the next
\* command is sent
CommandTimer(n) ==
    /\ ~crashed
    /\ UNCHANGED calls
    /\ n \in DOMAIN networks
    /\ networks[n].irc.status = "connected"
    /\ 0 < networks[n].irc.sent
    /\ networks[n].irc.sent < Len(networks[n].irc.commands)
    /\ replay' = FALSE
    /\ UNCHANGED <<req, finished, dl, nwconf, db, lookups, removals, crashed, checkFilename>>
    /\ networks' = [networks EXCEPT ![n].irc = SendCommand(@)]
    /\ ret' = R("command", "", n, "", 0, 0)

\* handle.kick for this session's own nick on a channel it is in; the client
\* was made with autoRejoin and asks to join again
Kick(n, name) ==
    /\ ~crashed
    /\ calls < MaxCalls
    /\ calls' = calls + 1
    /\ n \in DOMAIN networks
    /\ \E c \in Range(networks[n].irc.chans) : c.name = name /\ c.status = "joined"
    /\ replay' = FALSE
    /\ UNCHANGED <<req, finished, dl, nwconf, db, lookups, removals, crashed, checkFilename>>
    /\ LET irc == networks[n].irc
           irc1 == [RemoveAllListeners(irc, name) EXCEPT !.chans = [i \in DOMAIN @ |->
                       IF @[i].name = name THEN [@[i] EXCEPT !.status = "kicked"] ELSE @[i]]]
       IN networks' = [networks EXCEPT ![n].irc =
              [irc1 EXCEPT !.pend = Append(@, [cmd |-> "join", name |-> name, then |-> NoChannel])]]
    /\ ret' = R("kick", "", n, "", 0, 0)

----------------------------------------------------------------------------
(* removeNetwork(network, flush, cb) *)
\* a check that never sees a pending download
PendingDownloadsNever(n) == FALSE
\* _.size(nw.xdcc) > 0
PendingDownloads(n) == Cardinality(DOMAIN networks[n].xdcc) > 0

\* the final callback of async.parallel without error
DeleteNetwork(n) ==
    /\ networks' = Without(networks, n)
    /\ req' = Collect(req, Without(networks, n), finished)
    /\ nwconf' = Without(nwconf, n)
    /\ removals' = Without(removals, n)
    /\ ret' = R("removeNetwork.done", "", n, "", 0, 0)

\* the call: the checks, then both tasks of async.parallel are issued.
\* One removeNetwork per network is in flight at a time.
RemoveNetwork(n, flush) ==
    /\ ~crashed
    /\ calls < MaxCalls
    /\ calls' = calls + 1
    /\ n \notin DOMAIN removals
    /\ replay' = FALSE
    /\ UNCHANGED <<req, finished, dl, nwconf, db, lookups, crashed, checkFilename>>
    /\ IF n \notin DOMAIN networks
       THEN /\ ret' = R("removeNetwork", "unknown network", n, "", 0, 0)
            /\ UNCHANGED <<networks, removals>>
       ELSE IF PendingDownloads(n)
       THEN /\ ret' = R("removeNetwork", "downloads pending", n, "", 0, 0)
            /\ UNCHANGED <<networks, removals>>
       ELSE /\ networks' = [networks EXCEPT ![n].client = "down"]
            /\ removals' = With(removals, n, [flush |-> flush, disc |-> FALSE, flushed |-> ~flush])
            /\ ret' = R("removeNetwork", "", n, "", 0, 0)

\* a disconnect callback that deletes the network without the join
DisconnectDoneEager(n) ==
    /\ ~crashed
    /\ UNCHANGED calls
    /\ n \in DOMAIN removals
    /\ ~removals[n].disc
    /\ replay' = FALSE
    /\ UNCHANGED <<finished, dl, db, lookups, crashed, checkFilename>>
    /\ DeleteNetwork(n)

\* the callback of client.disconnect("bye", ...)
DisconnectDone(n) ==
    /\ ~crashed
    /\ UNCHANGED calls
    /\ n \in DOMAIN removals
    /\ ~removals[n].disc
    /\ replay' = FALSE
    /\ UNCHANGED <<finished, dl, db, lookups, crashed, checkFilename>>
    /\ IF removals[n].flushed
       THEN DeleteNetwork(n)
       ELSE /\ removals' = [removals EXCEPT ![n].disc = TRUE]
            /\ ret' = R("disconnect.done", "", n, "", 0, 0)
            /\ UNCHANGED <<networks, req, nwconf>>

\* the callback of logger.removeAll: with an error async.parallel calls the
\* final callback at once and the network stays
FlushDone(n, err) ==
    /\ ~crashed
    /\ UNCHANGED calls
    /\ n \in DOMAIN removals
    /\ ~removals[n].flushed
    /\ replay' = FALSE
    /\ UNCHANGED <<finished, dl, lookups, crashed, checkFilename>>
    /\ IF err
       THEN /\ removals' = Without(removals, n)
            /\ ret' = R("removeNetwork.done", "flush failed", n, "", 0, 0)
            /\ UNCHANGED <<networks, req, nwconf, db>>
       ELSE /\ db' = {p \in db : p[1] # n}
            /\ IF removals[n].disc
               THEN DeleteNetwork(n)
               ELSE /\ removals' = [removals EXCEPT ![n].flushed = TRUE]
                    /\ ret' = R("flush.done", "", n, "", 0, 0)
                    /\ UNCHANGED <<networks, req, nwconf>>

----------------------------------------------------------------------------
(* addDownload(id, dontPersist, cb) *)
\* the call: async.waterfall issues db.getItem(id, ...)
AddDownload(id, dontPersist) ==
    /\ ~crashed
    /\ calls < MaxCalls
    /\ calls' = calls + 1
    /\ lookups' = Append(lookups, [id |-> id, dontPersist |-> dontPersist, src |-> "user", net |-> "", bot |-> "", pack |-> 0])
    /\ replay' = FALSE
    /\ ret' = R("addDownload", "pending", "", "", 0, 0)
    /\ UNCHANGED <<networks, req, finished, dl, nwconf, db, removals, crashed, checkFilename>>

\* a search that never finds the pack
FindIndexNone(q, id) == -1
\* _.findIndex(xdcc, p => p.id == id): the index from 0, or -1
FindIndex(q, id) ==
    IF \E i \in DOMAIN q : req[q[i]].id = id
    THEN (CHOOSE i \in DOMAIN q : req[q[i]].id = id /\ \A j \in 1..(i - 1) : req[q[j]].id # id) - 1
    ELSE -1

\* an else branch that reports nothing
PackNotFoundSilent ==
    /\ ret' = R("addDownload", "", "", "", 0, 0)
    /\ UNCHANGED <<networks, req, dl>>
\* callback("Pack not found")
PackNotFound ==
    /\ ret' = R("addDownload", "Pack not found", "", "", 0, 0)
    /\ UNCHANGED <<networks, req, dl>>

\* a test that takes every pushed request for the first of its queue
FirstInQueueAlways(xdcc) == TRUE
\* xdcc.length == 1 after xdcc.push(pack)
FirstInQueue(xdcc) == Len(xdcc) = 1

\* the second task of the waterfall, run when the document store answers.
\* The store answers in the order it was asked.
LookupDone ==
    /\ ~crashed
    /\ UNCHANGED calls
    /\ lookups # <<>>
    /\ LET l == Head(lookups) IN
       /\ lookups' = Tail(lookups)
       /\ replay' = (replay /\ l.src = "boot")
       /\ UNCHANGED <<finished, nwconf, db, removals, crashed, checkFilename>>
       /\ IF Found(l.id) /\ GetItem(l.id).network \in DOMAIN networks
          THEN LET pack == GetItem(l.id)
                   n == pack.network
                   b == pack.bot
                   q == IF b \in DOMAIN networks[n].xdcc THEN networks[n].xdcc[b] ELSE <<>>
               IN IF FindIndex(q, pack.id) # -1
                  THEN /\ networks' = [networks EXCEPT ![n].xdcc = With(@, b, q)]
                       /\ ret' = R("addDownload", "true", n, b, pack.id, 0)
                       /\ UNCHANGED <<req, dl>>
                  ELSE LET u == NewUid IN
                          /\ req' = With(req, u,
                                [id |-> pack.id, network |-> n, bot |-> b, name |-> pack.name,
                                 st |-> IF FirstInQueue(Append(q, u))
                                        THEN Start("created") ELSE "created",
                                 hn |-> 0, xdcc |-> TRUE, notices |-> -1])
                          /\ networks' = [networks EXCEPT ![n].xdcc = With(@, b, Append(q, u))]
                          /\ dl' = IF l.dontPersist THEN dl
                                   ELSE With(dl, <<n, b>>,
                                        Append(DlGet(n, b), [pack |-> pack.id, name |-> pack.name]))
                          /\ ret' = R("addDownload", "", n, b, pack.id, u)
          ELSE PackNotFound

----------------------------------------------------------------------------
(* cancelDownload(network, bot, id, cb) *)
\* a search that always reports the head of the queue
PackIndexHead(xdccs, id) == 0
\* i = _.findIndex(xdccs, p => p.id == id)
PackIndex(xdccs, id) == FindIndex(xdccs, id)

CancelDownload(n, b, id) ==
    /\ ~crashed
    /\ calls < MaxCalls
    /\ calls' = calls + 1
    /\ replay' = FALSE
    /\ UNCHANGED <<finished, dl, nwconf, db, lookups, removals, crashed, checkFilename>>
    /\ IF n \notin DOMAIN networks
       THEN /\ ret' = R("cancelDownload", "Network not found", n, b, id, 0)
            /\ UNCHANGED <<networks, req>>
       ELSE IF b \notin DOMAIN networks[n].xdcc \/ Len(networks[n].xdcc[b]) = 0
       THEN /\ ret' = R("cancelDownload", "No download pending from bot", n, b, id, 0)
            /\ UNCHANGED <<networks, req>>
       ELSE IF PackIndex(Queue(n, b), id) = -1
       THEN /\ ret' = R("cancelDownload", "Pack not found", n, b, id, 0)
            /\ UNCHANGED <<networks, req>>
       ELSE LET q == Queue(n, b)
                u == q[PackIndex(q, id) + 1]
                r1 == [req EXCEPT ![u].st =
                          IF PackStatus(@) # "created" THEN Cancel(@) ELSE Kill(@)]
                nw1 == [networks EXCEPT ![n].xdcc[b] =
                          RemoveAll(q, {v \in Range(q) : req[v].id = id})]
            IN /\ networks' = nw1
               /\ req' = Collect(r1, nw1, finished)
               /\ ret' = R("cancelDownload", "", n, b, id, u)

----------------------------------------------------------------------------
(* The transfer engine's events and their handlers.  The handlers are bound *)
(* to the pack u the handle was made for, and use its network and bot.      *)

\* an uncaught TypeError in a handler ends the process
Throw(op, r) ==
    /\ crashed' = TRUE
    /\ req' = Collect(r, networks, finished)
    /\ ret' = R(op, "TypeError", "", "", 0, 0)
    /\ UNCHANGED <<networks, finished, dl, lookups>>

\* handle.xdccConnect
XdccConnect(u, fileOk) ==
    /\ ~crashed
    /\ UNCHANGED calls
    /\ u \in DOMAIN req
    /\ req[u].st = "requested"
    /\ replay' = FALSE
    /\ UNCHANGED <<nwconf, db, removals, checkFilename>>
    /\ LET n == req[u].network
           b == req[u].bot
           r1 == [req EXCEPT ![u].st = "connected"]
       IN IF n \notin DOMAIN networks
          THEN Throw("xdccConnect", r1)
          ELSE IF checkFilename /\ ~fileOk
          THEN IF ~HasQueue(n, b) \/ Len(Queue(n, b)) = 0
               THEN Throw("xdccConnect", r1)
               ELSE /\ req' = [r1 EXCEPT ![Head(Queue(n, b))].st = Cancel(@)]
                    /\ ret' = R("xdccConnect", "Filename missmatch", n, b, req[u].id, u)
                    /\ UNCHANGED <<networks, finished, dl, lookups, crashed>>
          ELSE /\ req' = r1
               /\ ret' = R("xdccConnect", "", n, b, req[u].id, u)
               /\ UNCHANGED <<networks, finished, dl, lookups, crashed>>

\* handle.xdccMessage: the handle has collected one more notice
XdccMessage(u) ==
    /\ ~crashed
    /\ UNCHANGED calls
    /\ u \in DOMAIN req
    /\ req[u].st \in {"requested", "connected"}
    /\ req[u].hn < MaxNotices
    /\ req' = [req EXCEPT ![u].hn = @ + 1]
    /\ replay' = FALSE
    /\ ret' = R("xdccMessage", "", req[u].network, req[u].bot, req[u].id, u)
    /\ UNCHANGED <<networks, finished, dl, nwconf, db, lookups, removals, crashed, checkFilename>>

\* handle.xdccProgress: status is the pack.status the engine reports
XdccProgress(u, status) ==
    /\ ~crashed
    /\ UNCHANGED calls
    /\ u \in DOMAIN req
    /\ replay' = FALSE
    /\ UNCHANGED <<nwconf, db, removals, checkFilename>>
    /\ LET n == req[u].network
           b == req[u].bot
       IN IF status = "canceled"
          THEN /\ req[u].st = "canceling"
               /\ LET r1 == [req EXCEPT ![u].st = "canceled"] IN
                  IF ~HasQueue(n, b)
                  THEN Throw("xdccProgress", r1)
                  ELSE LET rest == Shift(Queue(n, b))
                           nw1 == AdvanceNw(n, b, rest)
                       IN /\ networks' = nw1
                          /\ req' = Collect(AdvanceReq(r1, rest), nw1, finished)
                          /\ dl' = DlShift(n, b)
                          /\ ret' = R("xdccProgress", "canceled", n, b, req[u].id, u)
                          /\ UNCHANGED <<finished, lookups, crashed>>
          ELSE /\ req[u].st = "connected"
               /\ IF n \notin DOMAIN networks
                  THEN Throw("xdccProgress", req)
                  ELSE /\ ret' = R("xdccProgress", "", n, b, req[u].id, u)
                       /\ UNCHANGED <<networks, req, finished, dl, lookups, crashed>>

\* handle.xdccComplete
XdccComplete(u) ==
    /\ ~crashed
    /\ UNCHANGED calls
    /\ u \in DOMAIN req
    /\ req[u].st = "connected"
    /\ replay' = FALSE
    /\ UNCHANGED <<nwconf, db, removals, checkFilename>>
    /\ LET n == req[u].network
           b == req[u].bot
           r1 == [req EXCEPT ![u].st = "complete"]
       IN IF ~HasQueue(n, b) \/ Len(Queue(n, b)) = 0
          THEN Throw("xdccComplete", r1)
          ELSE LET request == Head(Queue(n, b))
                   rest == Tail(Queue(n, b))
                   r2 == [r1 EXCEPT ![request].notices = r1[request].hn,
                                    ![request].xdcc = FALSE]
                   nw1 == AdvanceNw(n, b, rest)
                   fin1 == SetAdd(finished, request)
               IN /\ networks' = nw1
                  /\ finished' = fin1
                  /\ req' = Collect(AdvanceReq(r2, rest), nw1, fin1)
                  /\ dl' = DlShift(n, b)
                  /\ ret' = R("xdccComplete", "", n, b, req[u].id, u)
                  /\ UNCHANGED <<lookups, crashed>>

\* handle.xdccError: the popped head is killed and re-submitted by its id
XdccError(u) ==
    /\ ~crashed
    /\ UNCHANGED calls
    /\ u \in DOMAIN req
    /\ req[u].st \in {"requested", "connected"}
    /\ replay' = FALSE
    /\ UNCHANGED <<nwconf, db, removals, checkFilename>>
    /\ LET n == req[u].network
           b == req[u].bot
           r1 == [req EXCEPT ![u].st = "error"]
       IN IF ~HasQueue(n, b) \/ Len(Queue(n, b)) = 0
          THEN Throw("xdccError", r1)
          ELSE LET request == Head(Queue(n, b))
                   rest == Tail(Queue(n, b))
                   r2 == [r1 EXCEPT ![request].st = Kill(@), ![request].xdcc = FALSE]
                   nw1 == AdvanceNw(n, b, rest)
               IN /\ networks' = nw1
                  /\ req' = Collect(AdvanceReq(r2, rest), nw1, finished)
                  /\ lookups' = Append(lookups,
                        [id |-> <<req[request].id>>, dontPersist |-> FALSE, src |-> "requeue",
                         net |-> n, bot |-> b, pack |-> req[request].id])
                  /\ dl' = DlShift(n, b)
                  /\ ret' = R("xdccError", "", n, b, req[u].id, u)
                  /\ UNCHANGED <<finished, crashed>>

----------------------------------------------------------------------------
(* The process ends (it crashed or was stopped) and is started again:       *)
(* the constructor runs boot() on the persisted configuration.              *)

RECURSIVE Flatten(_)
Flatten(ss) == IF Len(ss) = 0 THEN <<>> ELSE Head(ss) \o Flatten(Tail(ss))

\* the addDownload(`${key}:${bot}:${dl.pack}`, true) calls of boot, in order
BootLookups ==
    Flatten([i \in DOMAIN NetOrder |->
        IF NetOrder[i] \in DOMAIN nwconf
        THEN Flatten([j \in DOMAIN BotOrder |->
                [k \in DOMAIN DlGet(NetOrder[i], BotOrder[j]) |->
                    [id |-> <<NetOrder[i], BotOrder[j], DlGet(NetOrder[i], BotOrder[j])[k].pack>>,
                     dontPersist |-> TRUE, src |-> "boot", net |-> "", bot |-> "", pack |-> 0]]])
        ELSE <<>>])

\* SlingIrc.fromJSON throws on a record without a hostname string
BadRecord(json) == "hostname" \notin DOMAIN json

Boot(gen) ==
    /\ calls < MaxCalls
    /\ calls' = calls + 1
    /\ req' = EmptyMap
    /\ finished' = <<>>
    /\ removals' = EmptyMap
    /\ replay' = TRUE
    /\ UNCHANGED <<dl, nwconf, db, checkFilename>>
    /\ IF \E n \in DOMAIN nwconf : BadRecord(nwconf[n])
       THEN \* the constructor throws and the process does not come up
            /\ networks' = EmptyMap
            /\ lookups' = <<>>
            /\ crashed' = TRUE
            /\ ret' = R("boot", "parameter json.hostname ist not a string", "", "", 0, 0)
       ELSE /\ networks' = [n \in DOMAIN nwconf |->
                      [hostname |-> nwconf[n].hostname, client |-> "up", xdcc |-> EmptyMap,
                       irc |-> FromJSON(nwconf[n], gen[n])]]
            /\ lookups' = BootLookups
            /\ crashed' = FALSE
            /\ ret' = R("boot", "", "", "", 0, 0)

----------------------------------------------------------------------------
(* The whole program *)
Next ==
    \/ \E n \in NetNames, h \in HostNames : AddNetwork(n, h)
    \/ \E n \in NetNames, flush \in BOOLEAN : RemoveNetwork(n, flush)
    \/ \E n \in NetNames : DisconnectDone(n)
    \/ \E n \in NetNames, err \in BOOLEAN : FlushDone(n, err)
    \/ \E id \in DownloadIds, dontPersist \in UserDontPersist : AddDownload(id, dontPersist)
    \/ LookupDone
    \/ \E n \in NetNames, b \in Bots, id \in PackNums : CancelDownload(n, b, id)
    \/ \E u \in DOMAIN req, fileOk \in BOOLEAN : XdccConnect(u, fileOk)
    \/ \E u \in DOMAIN req : XdccMessage(u)
    \/ \E u \in DOMAIN req, status \in {"downloading", "canceled"} : XdccProgress(u, status)
    \/ \E u \in DOMAIN req : XdccComplete(u)
    \/ \E u \in DOMAIN req : XdccError(u)
    \/ \E gen \in [DOMAIN nwconf -> GenNicks] : Boot(gen)

Spec == Init /\ [][Next]_vars

(* The transfer queues of one bot of one network *)
QueueIdsIn == {<<"n1", "b1", 1>>, <<"n1", "b1", 2>>, <<"n1", "b1", 3>>}
QueueNext ==
    \/ AddNetwork("n1", "h1")
    \/ \E id \in QueueIdsIn, dontPersist \in UserDontPersist : AddDownload(id, dontPersist)
    \/ LookupDone
    \/ \E b \in Bots, id \in PackNums : CancelDownload("n1", b, id)
    \/ \E u \in DOMAIN req, fileOk \in BOOLEAN : XdccConnect(u, fileOk)
    \/ \E u \in DOMAIN req : XdccMessage(u)
    \/ \E u \in DOMAIN req, status \in {"downloading", "canceled"} : XdccProgress(u, status)
    \/ \E u \in DOMAIN req : XdccComplete(u)
    \/ \E u \in DOMAIN req : XdccError(u)

QueueSpec == Init /\ [][QueueNext]_vars

\* The same with an engine that reports a terminal event for every transfer
\* it was told to start or cancel, and a store that answers every lookup
Uids == 1..MaxCalls
Terminal(u) == XdccComplete(u) \/ XdccError(u) \/ XdccProgress(u, "canceled")
FairQueueSpec ==
    /\ QueueSpec
    /\ WF_vars(LookupDone)
    /\ \A u \in Uids : WF_vars(Terminal(u))

(* The same with restarts of the process *)
BootNext ==
    \/ AddNetwork("n1", "h1")
    \/ \E id \in QueueIdsIn, dontPersist \in UserDontPersist : AddDownload(id, dontPersist)
    \/ LookupDone
    \/ \E b \in Bots, id \in PackNums : CancelDownload("n1", b, id)
    \/ \E u \in DOMAIN req, fileOk \in BOOLEAN : XdccConnect(u, fileOk)
    \/ \E u \in DOMAIN req, status \in {"downloading", "canceled"} : XdccProgress(u, status)
    \/ \E u \in DOMAIN req : XdccComplete(u)
    \/ \E u \in DOMAIN req : XdccError(u)
    \/ \E gen \in [DOMAIN nwconf -> GenNicks] : Boot(gen)

BootSpec == Init /\ [][BootNext]_vars

(* The registry of networks, with one pack of each of the two bots of n1 *)
NetIdsIn == {<<"n1", "b1", 1>>, <<"n1", "b2", 1>>}
NetNext ==
    \/ \E n \in NetNames, h \in HostNames : AddNetwork(n, h)
    \/ \E n \in NetNames, flush \in BOOLEAN : RemoveNetwork(n, flush)
    \/ \E n \in NetNames : DisconnectDone(n)
    \/ \E n \in NetNames, err \in BOOLEAN : FlushDone(n, err)
    \/ \E id \in NetIdsIn, dontPersist \in UserDontPersist : AddDownload(id, dontPersist)
    \/ LookupDone
    \/ \E n \in NetNames, b \in Bots : CancelDownload(n, b, 1)
    \/ \E u \in DOMAIN req, fileOk \in BOOLEAN : XdccConnect(u, fileOk)
    \/ \E u \in DOMAIN req, status \in {"downloading", "canceled"} : XdccProgress(u, status)
    \/ \E u \in DOMAIN req : XdccComplete(u)

NetSpec == Init /\ [][NetNext]_vars

(* Registration with any value as the name *)
NameValues == {<<"string", "n1">>, <<"string", "">>, <<"number", "7">>, <<"undefined", "">>}
NameStrings == {v[2] : v \in {w \in NameValues : IsString(w)}}
NameNext ==
    \/ \E v \in NameValues, h \in HostNames : AddNetworkValue(v, h)
    \/ \E n \in NameStrings, flush \in BOOLEAN : RemoveNetwork(n, flush)
    \/ \E n \in NameStrings : DisconnectDone(n)
    \/ \E n \in NameStrings, err \in BOOLEAN : FlushDone(n, err)

NameSpec == Init /\ [][NameNext]_vars

(* One Connection Session: its construction and its snapshot *)
SessionNicks == {<<"string", "me">>, <<"undefined", "">>}
SessionCommands == {<<>>, <<"c1">>, <<"c1", "c2">>}
ChannelNames == {"#a", "#b"}
ChannelCfgs == {1, 2}
Channels == {Channel(name, cfg) : name \in ChannelNames, cfg \in ChannelCfgs}
SessionChannels == {<<>>} \cup {<<c>> : c \in Channels}
                      \cup {<<c, d>> : c \in Channels, d \in Channels}
SessionOpts == [nick : SessionNicks, commands : SessionCommands, channels : SessionChannels]
SessionNext ==
    \/ \E opts \in SessionOpts, gen \in GenNicks : AddNetworkOpts("n1", "h1", opts, gen)
    \/ \E gen \in GenNicks : RoundTrip("n1", gen)

SessionSpec == Init /\ [][SessionNext]_vars

(* Announcements of one bot *)
\* the digits the sizes are written with
Digits == {0, 1, 9}
SizeTexts == UNION {[1..k -> Digits] : k \in 1..MaxDigits}
Units == {"K", "k", "M", "m", "G", "g", "T", "t", "B", "x"}
PackNext ==
    \/ AddNetwork("n1", "h1")
    \/ \E text \in SizeTexts, unit \in Units : PackParse("n1", "b1", 3, text, unit)

PackSpec == Init /\ [][PackNext]_vars

(* The channels of one network *)
ChannelOpts == [nick : {<<"string", "me">>}, commands : {<<>>},
                channels : {<<>>, <<Channel("#a", 1)>>}]
ChannelNext ==
    \/ \E opts \in ChannelOpts : AddNetworkOpts("n1", "h1", opts, "g1")
    \/ \E n \in NetNames, channel \in Channels : AddChannel(n, channel)
    \/ \E n \in NetNames, name \in ChannelNames : RemoveChannel(n, Channel(name, 1))
    \/ JoinAck("n1")
    \/ PartAck("n1")

ChannelSpec == Init /\ [][ChannelNext]_vars

----------------------------------------------------------------------------
(* The events of one Connection Session *)
EventOpts == [nick : {<<"string", "me">>}, commands : SessionCommands,
              channels : {<<>>, <<Channel("#a", 1)>>, <<Channel("#a", 1), Channel("#b", 2)>>}]
EventNext ==
    \/ \E opts \in EventOpts : AddNetworkOpts("n1", "h1", opts, "g1")
    \/ Registered("n1")
    \/ CommandTimer("n1")
    \/ JoinAck("n1")
    \/ \E name \in ChannelNames : Kick("n1", name)
    \/ \E name \in ChannelNames : RemoveChannel("n1", Channel(name, 1))
    \/ PartAck("n1")

EventSpec == Init /\ [][EventNext]_vars

----------------------------------------------------------------------------
(* Properties *)

\* the requests that sit in some transfer queue of the registry nw
QueuedIn(nw) ==
    UNION {Range(nw[x[1]].xdcc[x[2]]) :
              x \in {y \in (DOMAIN nw) \X Bots : y[2] \in DOMAIN nw[y[1]].xdcc}}

\* the transfers of bot b on network n that were started and have not ended
Transfers(n, b) ==
    {u \in DOMAIN req : req[u].network = n /\ req[u].bot = b /\ req[u].st \in Running}

\* the pack numbers of a persisted pending-list, in order
DlPacks(n, b) == [i \in DOMAIN DlGet(n, b) |-> DlGet(n, b)[i].pack]
\* the pack numbers of the transfer queue, in order; no queue is an empty one
QueuePacks(n, b) == IF HasQueue(n, b) THEN QueueIds(Queue(n, b)) ELSE <<>>

\* C1: every (network, bot) has at most one transfer that was started and has
\* not ended, and that transfer is the one of the head of the bot's queue.
C1_OneTransferAtHead ==
    \A n \in NetNames, b \in Bots :
        /\ Cardinality(Transfers(n, b)) <= 1
        /\ \A u \in Transfers(n, b) :
              HasQueue(n, b) /\ Len(Queue(n, b)) > 0 /\ Head(Queue(n, b)) = u

\* C2: a terminal event (complete, error, progress with status canceled) of
\* request u takes exactly u out of the queues: every other queued request
\* is still queued after the handler.
C2_TerminalEventRemovesOnlyItsRequest ==
    [][\A u \in DOMAIN req :
          (XdccComplete(u) \/ XdccError(u) \/ XdccProgress(u, "canceled"))
              => QueuedIn(networks') = QueuedIn(networks) \ {u}]_vars

\* C3: when the re-submission the error handler made for a failed request is
\* answered, with the pack still stored and its network still registered,
\* the pack is in a transfer queue of that network; the error handler itself
\* puts nothing into the finished set.
C3_RequeueLaw ==
    [][/\ (lookups # <<>> /\ LookupDone /\ Head(lookups).src = "requeue"
              /\ <<Head(lookups).net, Head(lookups).bot, Head(lookups).pack>> \in db
              /\ Head(lookups).net \in DOMAIN networks)
          => \E b \in DOMAIN networks'[Head(lookups).net].xdcc :
                \E v \in Range(networks'[Head(lookups).net].xdcc[b]) :
                    req'[v].id = Head(lookups).pack
       /\ (\E u \in DOMAIN req : XdccError(u)) => finished' = finished]_vars

\* C4: after the complete event of request u, u is in the finished set
\* exactly once, is in no queue, holds no transfer handle, and its notices
\* are those its handle held when the event came.
C4_CompletionLaw ==
    [][\A u \in DOMAIN req :
          XdccComplete(u) =>
              /\ Cardinality({i \in DOMAIN finished' : finished'[i] = u}) = 1
              /\ u \notin QueuedIn(networks')
              /\ ~req'[u].xdcc
              /\ req'[u].notices = req[u].hn]_vars

\* C5: the continuation of addDownload(id) for an id whose pack is already in
\* the queue of its network and bot changes no queue, no request and no
\* transfer handle, and leaves the persisted pending-lists as they are.
AlreadyQueued(id) ==
    /\ Len(id) = 3
    /\ HasQueue(id[1], id[2])
    /\ \E v \in Range(Queue(id[1], id[2])) : req[v].id = id[3]
C5_AddDownloadIdempotent ==
    [][(lookups # <<>> /\ LookupDone /\ AlreadyQueued(Head(lookups).id))
          => /\ networks' = networks
             /\ req' = req
             /\ dl' = dl
             /\ finished' = finished]_vars
\* an addDownload of a queued id has answered
C5_Witness ==
    /\ ret = R("addDownload", "true", "", "", 0, 0)
    /\ \E n \in DOMAIN networks : \E b \in DOMAIN networks[n].xdcc : Len(networks[n].xdcc[b]) >= 1

\* C6: removeNetwork of a network that has a non-empty queue for some bot
\* throws "downloads pending"; the registry (the session included), the
\* document store and the persisted configuration stay as they are.
C6_RemovalGuard ==
    [][\A n \in NetNames, flush \in BOOLEAN :
          (/\ RemoveNetwork(n, flush)
           /\ n \in DOMAIN networks
           /\ \E b \in DOMAIN networks[n].xdcc : Len(networks[n].xdcc[b]) > 0)
          => /\ ret' = R("removeNetwork", "downloads pending", "", "", 0, 0)
             /\ UNCHANGED <<networks, nwconf, db, removals, dl>>]_vars
\* a removeNetwork was refused while a queue of a registered network held a request
C6_Witness ==
    /\ ret = R("removeNetwork", "downloads pending", "", "", 0, 0)
    /\ \E n \in DOMAIN networks :
          /\ networks[n].client = "up"
          /\ \E b \in DOMAIN networks[n].xdcc : Len(networks[n].xdcc[b]) > 0

\* C7: no step other than a restart of the process takes a network out of
\* the registry while one of its queues holds a request.
C7_NoDeleteWithQueuedRequests ==
    [][\A n \in DOMAIN networks :
          (n \notin DOMAIN networks' /\ ret'.op # "boot")
              => \A b \in DOMAIN networks[n].xdcc : Len(networks[n].xdcc[b]) = 0]_vars

\* C8: addNetwork with a registered name throws "network name not unique" and
\* leaves the registry (sessions and queues) and the persisted configuration
\* as they are.
C8_NetworkNamesUnique ==
    [][\A n \in NetNames, h \in HostNames :
          (AddNetwork(n, h) /\ n \in DOMAIN networks)
          => /\ ret' = R("addNetwork", "network name not unique", "", "", 0, 0)
             /\ UNCHANGED <<networks, nwconf, req, dl, db>>]_vars
\* a second registration was refused while the first network held a queue
C8_Witness ==
    /\ ret = R("addNetwork", "network name not unique", "", "", 0, 0)
    /\ \E n \in DOMAIN networks : \E b \in DOMAIN networks[n].xdcc : Len(networks[n].xdcc[b]) > 0

\* C9: once boot and the addDownload calls it made have finished, every
\* persisted network is registered and every non-empty persisted
\* pending-list of such a network is the bot's queue, in order, with the
\* head started and the others not.
C9_BootRecovery ==
    (replay /\ lookups = <<>> /\ ~crashed) =>
        \A n \in DOMAIN nwconf :
            /\ n \in DOMAIN networks
            /\ \A b \in Bots :
                  Len(DlGet(n, b)) > 0 =>
                      /\ QueuePacks(n, b) = DlPacks(n, b)
                      /\ \A i \in DOMAIN Queue(n, b) :
                            req[Queue(n, b)[i]].st = IF i = 1 THEN "requested" ELSE "created"

\* C10: whenever no call is waiting for the document store, the persisted
\* pending-list of every bot of a registered network lists the packs of the
\* bot's queue, in order.
C10_PendingListMirrorsQueue ==
    (lookups = <<>> /\ ~crashed) =>
        \A n \in DOMAIN networks : \A b \in Bots : DlPacks(n, b) = QueuePacks(n, b)

\* C11: no handler of a transfer-engine event throws: the network, the bot's
\* queue and a head request are there whenever an event is delivered.
C11_NoHandlerCrash == ~crashed

\* C12: addNetwork with a name that is not a non-empty string (a value of
\* another type, or the empty string) reports an error, registers nothing
\* and persists nothing.
C12_NameMustBeNonEmptyString ==
    [][\A v \in NameValues, h \in HostNames :
          (AddNetworkValue(v, h) /\ ~(IsString(v) /\ v[2] # ""))
              => /\ ret'.err # ""
                 /\ UNCHANGED <<networks, nwconf>>]_vars

\* C13: cancelDownload on an unknown network, for a bot with no queue, or
\* with an id that is not in the bot's queue reports an error and changes no
\* queue, no request or transfer handle, and no persisted pending-list.
C13_CancelRefused ==
    [][\A n \in NetNames, b \in Bots, id \in PackNums :
          (/\ CancelDownload(n, b, id)
           /\ \/ n \notin DOMAIN networks
              \/ ~HasQueue(n, b)
              \/ \A v \in Range(Queue(n, b)) : req[v].id # id)
          => /\ ret'.err \in {"Network not found", "No download pending from bot", "Pack not found"}
             /\ UNCHANGED <<networks, req, dl, finished>>]_vars
\* a cancelDownload for an id that is not queued was refused while the bot had a queue
C13_Witness ==
    /\ ret = R("cancelDownload", "Pack not found", "", "", 0, 0)
    /\ \E n \in DOMAIN networks : \E b \in DOMAIN networks[n].xdcc :
          /\ Len(networks[n].xdcc[b]) >= 1
          /\ req[networks[n].xdcc[b][1]].st \in Running

ChannelSet(chans) == {<<chans[i].name, chans[i].cfg>> : i \in DOMAIN chans}

\* C15: the session rebuilt by fromJSON from a session's toJSON has the same
\* hostname, nickname, command sequence and channel set, and status
\* connecting.
C15_SessionRoundTrip ==
    [][\A gen \in GenNicks :
          RoundTrip("n1", gen) =>
              /\ ret'.data.hostname = networks["n1"].irc.hostname
              /\ ret'.data.nick = networks["n1"].irc.nick
              /\ ret'.data.commands = networks["n1"].irc.commands
              /\ ChannelSet(ret'.data.chans) = ChannelSet(networks["n1"].irc.chans)
              /\ ret'.data.status = "connecting"]_vars

RECURSIVE Pow10(_)
Pow10(k) == IF k = 0 THEN 1 ELSE 10 * Pow10(k - 1)
\* the number a text of decimal digits stands for
Value(text) == LET S(i) == text[i] * Pow10(Len(text) - i)
                   Sum[i \in 0..Len(text)] == IF i = 0 THEN 0 ELSE Sum[i - 1] + S(i)
               IN Sum[Len(text)]
\* the power of 1024 a unit letter stands for; none for other letters
UnitPower(unit) ==
    CASE unit \in {"K", "k"} -> 1 [] unit \in {"M", "m"} -> 2
      [] unit \in {"G", "g"} -> 3 [] unit \in {"T", "t"} -> 4 [] OTHER -> 0

\* C16: for a size n and a unit letter, the parsed size is n * 1024^p with
\* p = 1, 2, 3, 4 for K, M, G, T in either case and the unit field is
\* removed; for another letter the size is n and the unit field stays.
C16_SizeNormalization ==
    ret.op = "packParse" =>
        /\ ret.data.size = Num(Value(ret.text), UnitPower(ret.unit))
        /\ ret.data.sizeUnit =
              IF UnitPower(ret.unit) > 0 THEN <<"undefined", "">> ELSE <<"string", ret.unit>>
\* a size in terabytes was parsed
C16_Witness ==
    /\ ret.op = "packParse"
    /\ ret.data.size.e = 4
    /\ ret.data.size.m > 9

\* the names and settings of a channel list, in order
ChannelList(chans) == [i \in DOMAIN chans |-> <<chans[i].name, chans[i].cfg>>]

\* C17: after an addChannel or removeChannel that went through on a
\* registered network, the persisted record of that network holds the
\* channel list the session has.
C17_ChannelsPersisted ==
    [][\A n \in NetNames :
          ((\/ \E channel \in Channels : AddChannel(n, channel)
            \/ \E name \in ChannelNames : RemoveChannel(n, Channel(name, 1)))
           /\ n \in DOMAIN networks
           /\ ret'.err = "")
          => /\ n \in DOMAIN nwconf'
             /\ ChannelList(nwconf'[n].opts.channels) = ChannelList(networks'[n].irc.chans)]_vars

C19_CancelFrame ==
    [][\A n \in NetNames, b \in Bots, id \in PackNums :
          (CancelDownload(n, b, id) /\ ret'.err = "")
          => LET q == Queue(n, b)
                 i == CHOOSE j \in DOMAIN q : req[q[j]].id = id
                 u == q[i]
                 past == i = 1 /\ req[u].st \in {"connected", "canceling"}
             IN /\ Cardinality({j \in DOMAIN q : req[q[j]].id = id}) = 1
                /\ networks'[n].xdcc[b] = SubSeq(q, 1, i - 1) \o SubSeq(q, i + 1, Len(q))
                /\ \A m \in DOMAIN networks : \A c \in DOMAIN networks[m].xdcc :
                       <<m, c>> # <<n, b>> => networks'[m].xdcc[c] = networks[m].xdcc[c]
                /\ IF past THEN req'[u].st = "canceling" ELSE u \notin DOMAIN req'
                /\ \A v \in DOMAIN req' : v # u => req'[v] = req[v]]_vars
\* a queued request behind a started head was cancelled
C19_Witness ==
    /\ ret = R("cancelDownload", "", "", "", 0, 0)
    /\ \E n \in DOMAIN networks : \E b \in DOMAIN networks[n].xdcc :
          /\ Len(networks[n].xdcc[b]) >= 1
          /\ req[networks[n].xdcc[b][1]].st = "connected"

\* C20: with filename checking on, the connect event of request u with
\* another file name than the declared one signals cancel to u's own
\* transfer and changes no queue and no persisted pending-list; a request
\* being cancelled is never put into the finished set, and leaves its queue
\* through its canceled progress event (or a cancelDownload of it) only.
C20_FilenameMismatch ==
    [][/\ \A u \in DOMAIN req :
             (checkFilename /\ XdccConnect(u, FALSE))
                 => /\ ~crashed'
                    /\ req'[u].st = "canceling"
                    /\ \A v \in DOMAIN req \ {u} : v \in DOMAIN req' /\ req'[v] = req[v]
                    /\ UNCHANGED <<networks, dl, finished>>
       /\ \A u \in DOMAIN req :
             (req[u].st = "canceling" /\ u \in QueuedIn(networks))
                 => /\ u \notin Range(finished')
                    /\ u \notin QueuedIn(networks')
                          => \/ XdccProgress(u, "canceled")
                             \/ CancelDownload(req[u].network, req[u].bot, req[u].id)]_vars

\* the commands among what the registration sequence sent, in order
WireCommands(wire) == SelectSeq(wire, LAMBDA w : w[1] = "command")

\* C21: on the registered event the status becomes connected; the configured
\* commands are sent one at a time in their configured order (by the handler
\* and its timers); and no join of the registration sequence is issued before
\* the last configured command has been sent.
C21_CommandsBeforeJoins ==
    [][\A n \in DOMAIN networks :
          (Registered(n) \/ CommandTimer(n)) =>
              LET irc == networks'[n].irc
                  cmds == WireCommands(irc.wire)
              IN /\ irc.status = "connected"
                 /\ Len(cmds) <= Len(irc.commands)
                 /\ \A i \in DOMAIN cmds : cmds[i][2] = irc.commands[i]
                 /\ Registered(n) => Len(cmds) <= 1
                 /\ CommandTimer(n) => Len(cmds) = Len(WireCommands(networks[n].irc.wire)) + 1
                 /\ \A i \in DOMAIN irc.wire :
                        irc.wire[i][1] = "join"
                            => Len(WireCommands(SubSeq(irc.wire, 1, i - 1))) = Len(irc.commands)]_vars

\* C22: in every state of a Connection Session each channel has at most one
\* announcement observer attached (one listener on its message event), across
\* registered, re-registered, join, part and kick events.
C22_OneObserverPerChannel ==
    \A n \in DOMAIN networks : \A name \in DOMAIN networks[n].irc.obs :
        networks[n].irc.obs[name] <= 1

\* the joins of the channel name the server has not acknowledged yet
JoinsOutstanding(irc, name) ==
    Cardinality({i \in DOMAIN irc.pend : irc.pend[i].cmd = "join" /\ irc.pend[i].name = name})

\* C23: addChannel with a channel whose name is tracked issues the leave of
\* the old channel and no join; the join of the new channel is issued when
\* that leave is acknowledged and leaves the new record in the tracker under
\* that name; two joins for one channel name are never outstanding at once.
C23_ReplaceLeavesThenJoins ==
    [][\A n \in DOMAIN networks :
          LET irc == networks[n].irc IN
          /\ \A channel \in Channels :
                (AddChannel(n, channel) /\ HasChannel(irc, channel.name))
                    => /\ networks'[n].irc.pend = Append(irc.pend,
                              [cmd |-> "part", name |-> channel.name, then |-> channel])
                       /\ networks'[n].irc.chans = irc.chans
          /\ (PartAck(n) /\ ~crashed' /\ Head(irc.pend).then # NoChannel)
                    => /\ Head(irc.pend).then \in Range(networks'[n].irc.chans)
                       /\ JoinsOutstanding(networks'[n].irc, Head(irc.pend).name) >= 1
          /\ n \in DOMAIN networks'
                    => \A name \in ChannelNames : JoinsOutstanding(networks'[n].irc, name) <= 1]_vars

\* C24: in no state does a network's bot-to-queue mapping hold a bot whose
\* queue is empty: a queue is removed when its last request leaves it.
C24_NoEmptyQueue ==
    \A n \in DOMAIN networks : \A b \in DOMAIN networks[n].xdcc :
        Len(networks[n].xdcc[b]) > 0

\* C25: an addDownload that succeeds for an id not yet queued appends the
\* request at the tail of the queue of its (network, bot), leaves the entries
\* before it and the other queues as they were, and sends start for the new
\* request if and only if the queue was empty before; no other transfer is
\* started.
C25_AppendAndStart ==
    [][(lookups # <<>> /\ LookupDone /\ ~AlreadyQueued(Head(lookups).id)
            /\ ret' = R("addDownload", "", "", "", 0, 0))
          => LET id == Head(lookups).id
                 n == id[1]
                 b == id[2]
                 before == IF HasQueue(n, b) THEN Queue(n, b) ELSE <<>>
                 after == networks'[n].xdcc[b]
                 new == after[Len(after)]
             IN /\ Len(after) = Len(before) + 1
                /\ SubSeq(after, 1, Len(before)) = before
                /\ new \notin DOMAIN req
                /\ req'[new].id = id[3]
                /\ req'[new].st = "requested" <=> Len(before) = 0
                /\ req'[new].st \in {"requested", "created"}
                /\ \A v \in DOMAIN req : v \in DOMAIN req' => req'[v] = req[v]
                /\ \A m \in DOMAIN networks : \A c \in DOMAIN networks[m].xdcc :
                      <<m, c>> # <<n, b>> => /\ c \in DOMAIN networks'[m].xdcc
                                             /\ networks'[m].xdcc[c] = networks[m].xdcc[c]]_vars
\* an addDownload has just appended a request behind another one and did not
\* start it
C25_Witness ==
    /\ ret = R("addDownload", "", "", "", 0, 0)
    /\ \E n \in DOMAIN networks : \E b \in DOMAIN networks[n].xdcc :
          LET q == networks[n].xdcc[b] IN
          /\ Len(q) >= 2
          /\ req[q[Len(q)]].st = "created"
          /\ req[q[1]].st \in Running

\* request u is in a queue and its transfer was not started yet
Waiting(u) == u \in DOMAIN req /\ u \in QueuedIn(networks) /\ req[u].st = "created"

\* C26: no queued download is dropped or starved.  A request whose transfer
\* was not started leaves its queue through a cancelDownload of it only, and
\* with an engine that reports a terminal event for every transfer it was told
\* to start or cancel, a request that waits in a queue does not wait for ever.
C26_NoStarvation ==
    /\ [][\A u \in DOMAIN req :
             (Waiting(u) /\ u \notin QueuedIn(networks'))
                 => CancelDownload(req[u].network, req[u].bot, req[u].id)]_vars
    /\ \A u \in Uids : Waiting(u) ~> ~Waiting(u)

\* C27: in every state each request that was enqueued with persistence and
\* has neither completed nor been cancelled is in the persisted pending-list
\* of its (network, bot): the requests in the queues, and the failed ones
\* whose re-submission by the error handler has not been answered yet.
C27_PendingListHoldsEveryRequest ==
    /\ \A u \in QueuedIn(networks) :
          req[u].id \in Range(DlPacks(req[u].network, req[u].bot))
    /\ \A i \in DOMAIN lookups :
          lookups[i].src = "requeue"
              => lookups[i].pack \in Range(DlPacks(lookups[i].net, lookups[i].bot))

====
